---- MODULE Spec2Model ----
(***************************************************************************)
(* STAMP protocol demo: the mock verification library (stamp-mock.ts and   *)
(* its ReScript twin StampMock.res), the SQLite subscriber/audit store     *)
(* (database.ts) and the Telegram bot that drives them (bot.ts).           *)
(*                                                                         *)
(* The specifications share the variables:                                 *)
(*   SpecVerify  the verifiers of both implementations on enumerated       *)
(*               inputs,                                                   *)
(*   SpecStore   arbitrary sequences of the writing Database methods,      *)
(*   SpecQuery   the same with the reading methods,                        *)
(*   SpecProof   a proof and the input object it was generated from,       *)
(*   Spec        the bot: its five commands and the periodic broadcast.    *)
(*                                                                         *)
(* Text values (urls, tokens, signatures) are sequences of text pieces, so *)
(* that "starts with" and "is empty" are computed and not assumed.         *)
(* A timestamp is a pair [d, ms] standing for d * 86400000 + ms            *)
(* milliseconds, 0 <= ms < 86400000: the 30 and 90 day tier boundaries do  *)
(* not fit the model checker's 32-bit integers when counted in ms.         *)
(***************************************************************************)
EXTENDS Integers, Sequences, FiniteSets, TLC

VARIABLES
    now,        \* the wall clock, what Date.now() returns
    users,      \* table users: telegram_id -> row
    messages,   \* table messages, in insertion order
    autoinc,    \* sqlite_sequence of messages.id (AUTOINCREMENT)
    ret,        \* the last Database call and what it returned or threw
    cmd,        \* the command handlers: cmd[h] is where handler h stands
    bc,         \* the sendDemoMessages run started by setInterval
    sends,      \* outcomes of bot.api.sendMessage: [round, to, ok]
    vkind,      \* SpecVerify: which verifier the input is for
    vinput,     \* SpecVerify: the input record
    calls       \* SpecVerify: the calls made on vinput: [at, verdict, res]

vars == <<now, users, messages, autoinc, ret, cmd, bc, sends,
          vkind, vinput, calls>>

storeVars == <<users, messages, autoinc, ret>>
botVars == <<cmd, bc, sends>>
verifyVars == <<vkind, vinput, calls>>

----------------------------------------------------------------------------
(* Bounds of the model *)

MaxCalls == 2       \* calls of a verifier on one input (SpecVerify)
MaxTicks == 2       \* clock advances in one run of SpecStore
MaxBotTicks == 3    \* clock advances in one run of Spec
MaxMessages == 2    \* rows of table messages
MaxRounds == 1      \* sendDemoMessages runs in one run of Spec

Ids == {1, 2}       \* Telegram user ids
Handlers == {1, 2}  \* command handler invocations that can be alive at once

----------------------------------------------------------------------------
(* Timestamps and durations *)

DayMs == 86400000

TNorm(d, m) == [d |-> d + (m \div DayMs), ms |-> m % DayMs]
Ms(k) == TNorm(0, k)
Days(n) == TNorm(n, 0)
TAdd(t, k) == TNorm(t.d, t.ms + k)
TSub(a, b) == TNorm(a.d - b.d, a.ms - b.ms)
TLt(a, b) == a.d < b.d \/ (a.d = b.d /\ a.ms < b.ms)
TLe(a, b) == ~TLt(b, a)

(* Text *)

startsWith(s, prefix) ==
    Len(s) >= Len(prefix) /\ SubSeq(s, 1, Len(prefix)) = prefix

Https == <<"h", "t", "t", "p", "s", ":", "/", "/">>
Http == <<"h", "t", "t", "p", ":", "/", "/">>
EmptyText == <<>>

----------------------------------------------------------------------------
(* stamp-mock.ts: the verifiers.  Date.now() is the variable now. *)

\* a probe aged exactly 60000 ms is already too old
verifyUnsubscribe_HalfOpen(params) ==
    LET age_ms == TSub(now, params.tested_at) IN
    IF ~startsWith(params.url, Https) THEN "ERROR_INVALID_URL"
    ELSE IF TLe(Ms(60000), age_ms) \/ TLt(age_ms, Ms(0)) THEN "ERROR_TIMEOUT"
    ELSE IF params.response_code # 200 THEN "ERROR_INVALID_RESPONSE"
    ELSE IF params.response_time >= 200 THEN "ERROR_TIMEOUT"
    ELSE IF Len(params.signature) = 0 THEN "ERROR_INVALID_SIGNATURE"
    ELSE "SUCCESS"

verifyUnsubscribe_SkipScheme(params) ==
    LET age_ms == TSub(now, params.tested_at) IN
    IF TLt(Ms(60000), age_ms) \/ TLt(age_ms, Ms(0)) THEN "ERROR_TIMEOUT"
    ELSE IF params.response_code # 200 THEN "ERROR_INVALID_RESPONSE"
    ELSE IF params.response_time >= 200 THEN "ERROR_TIMEOUT"
    ELSE IF Len(params.signature) = 0 THEN "ERROR_INVALID_SIGNATURE"
    ELSE "SUCCESS"

verifyUnsubscribe_CodeFirst(params) ==
    LET age_ms == TSub(now, params.tested_at) IN
    IF ~startsWith(params.url, Https) THEN "ERROR_INVALID_URL"
    ELSE IF params.response_code # 200 THEN "ERROR_INVALID_RESPONSE"
    ELSE IF TLt(Ms(60000), age_ms) \/ TLt(age_ms, Ms(0)) THEN "ERROR_TIMEOUT"
    ELSE IF params.response_time >= 200 THEN "ERROR_TIMEOUT"
    ELSE IF Len(params.signature) = 0 THEN "ERROR_INVALID_SIGNATURE"
    ELSE "SUCCESS"

\* the response time is not looked at
verifyUnsubscribe_AnyLatency(params) ==
    LET age_ms == TSub(now, params.tested_at) IN
    IF ~startsWith(params.url, Https) THEN "ERROR_INVALID_URL"
    ELSE IF TLt(Ms(60000), age_ms) \/ TLt(age_ms, Ms(0)) THEN "ERROR_TIMEOUT"
    ELSE IF params.response_code # 200 THEN "ERROR_INVALID_RESPONSE"
    ELSE IF Len(params.signature) = 0 THEN "ERROR_INVALID_SIGNATURE"
    ELSE "SUCCESS"

verifyUnsubscribe(params) ==
    LET age_ms == TSub(now, params.tested_at) IN
    IF ~startsWith(params.url, Https) THEN "ERROR_INVALID_URL"
    ELSE IF TLt(Ms(60000), age_ms) \/ TLt(age_ms, Ms(0)) THEN "ERROR_TIMEOUT"
    ELSE IF params.response_code # 200 THEN "ERROR_INVALID_RESPONSE"
    ELSE IF params.response_time >= 200 THEN "ERROR_TIMEOUT"
    ELSE IF Len(params.signature) = 0 THEN "ERROR_INVALID_SIGNATURE"
    ELSE "SUCCESS"

\* the token is checked before the chain
verifyConsent_TokenFirst(params) ==
    LET time_diff == TSub(params.confirmation, params.initial_request) IN
    IF Len(params.token) = 0 THEN "ERROR_INVALID_SIGNATURE"
    ELSE IF TLe(params.confirmation, params.initial_request) THEN "ERROR_CONSENT_INVALID"
    ELSE IF TLt(Ms(86400000), time_diff) THEN "ERROR_CONSENT_INVALID"
    ELSE "SUCCESS"

verifyConsent_StrictDay(params) ==
    LET time_diff == TSub(params.confirmation, params.initial_request) IN
    IF TLe(params.confirmation, params.initial_request) THEN "ERROR_CONSENT_INVALID"
    ELSE IF TLe(Ms(86400000), time_diff) THEN "ERROR_CONSENT_INVALID"
    ELSE IF Len(params.token) = 0 THEN "ERROR_INVALID_SIGNATURE"
    ELSE "SUCCESS"

verifyConsent_ReadsClock(params) ==
    LET time_diff == TSub(params.confirmation, params.initial_request) IN
    IF TLe(params.confirmation, params.initial_request) \/ TLt(now, params.confirmation)
    THEN "ERROR_CONSENT_INVALID"
    ELSE IF TLt(Ms(86400000), time_diff) THEN "ERROR_CONSENT_INVALID"
    ELSE IF Len(params.token) = 0 THEN "ERROR_INVALID_SIGNATURE"
    ELSE "SUCCESS"

\* an empty token is reported as a null pointer
verifyConsent_NullToken(params) ==
    LET time_diff == TSub(params.confirmation, params.initial_request) IN
    IF TLe(params.confirmation, params.initial_request) THEN "ERROR_CONSENT_INVALID"
    ELSE IF TLt(Ms(86400000), time_diff) THEN "ERROR_CONSENT_INVALID"
    ELSE IF Len(params.token) = 0 THEN "ERROR_NULL_POINTER"
    ELSE "SUCCESS"

verifyConsent(params) ==
    LET time_diff == TSub(params.confirmation, params.initial_request) IN
    IF TLe(params.confirmation, params.initial_request) THEN "ERROR_CONSENT_INVALID"
    ELSE IF TLt(Ms(86400000), time_diff) THEN "ERROR_CONSENT_INVALID"
    ELSE IF Len(params.token) = 0 THEN "ERROR_INVALID_SIGNATURE"
    ELSE "SUCCESS"

\* an age of exactly 30 or 90 days is still in the lower tier
max_limit_BoundaryBelow(age_ms) ==
    IF TLe(age_ms, Days(30)) THEN 1000
    ELSE IF TLe(age_ms, Days(90)) THEN 10000
    ELSE 100000

\* age_days = age_ms / (24 * 60 * 60 * 1000) is a float division of two exact
\* integers, so age_days < n holds exactly when age_ms < n days
max_limit(age_ms) ==
    IF TLt(age_ms, Days(30)) THEN 1000
    ELSE IF TLt(age_ms, Days(90)) THEN 10000
    ELSE 100000

\* the count may reach the limit
verifyRateLimit_StrictCount(params) ==
    LET age_ms == TSub(now, params.account_created) IN
    IF params.messages_today > params.daily_limit THEN "ERROR_RATE_LIMIT_EXCEEDED"
    ELSE IF params.daily_limit > max_limit(age_ms) THEN "ERROR_RATE_LIMIT_EXCEEDED"
    ELSE "SUCCESS"

verifyRateLimit_Exclusive(params) ==
    LET age_ms == TSub(now, params.account_created) IN
    IF params.messages_today >= params.daily_limit THEN "ERROR_RATE_LIMIT_EXCEEDED"
    ELSE IF params.daily_limit >= max_limit(age_ms) THEN "ERROR_RATE_LIMIT_EXCEEDED"
    ELSE "SUCCESS"

verifyRateLimit(params) ==
    LET age_ms == TSub(now, params.account_created) IN
    IF params.messages_today >= params.daily_limit THEN "ERROR_RATE_LIMIT_EXCEEDED"
    ELSE IF params.daily_limit > max_limit(age_ms) THEN "ERROR_RATE_LIMIT_EXCEEDED"
    ELSE "SUCCESS"

\* messages[result] || UNKNOWN_ERROR, messages being called table here; a text
\* is the mark (U+2713 or U+2717), a space, and the name
resultToString(result) ==
    LET table ==
            [r \in {"SUCCESS", "ERROR_INVALID_URL", "ERROR_TIMEOUT",
                    "ERROR_INVALID_RESPONSE", "ERROR_INVALID_SIGNATURE",
                    "ERROR_RATE_LIMIT_EXCEEDED", "ERROR_CONSENT_INVALID",
                    "ERROR_NULL_POINTER", "ERROR_INTERNAL"} |->
                CASE r = "SUCCESS" -> <<"U+2713", " ", "SUCCESS">>
                  [] r = "ERROR_INVALID_URL" -> <<"U+2717", " ", "INVALID_URL">>
                  [] r = "ERROR_TIMEOUT" -> <<"U+2717", " ", "TIMEOUT">>
                  [] r = "ERROR_INVALID_RESPONSE" -> <<"U+2717", " ", "INVALID_RESPONSE">>
                  [] r = "ERROR_INVALID_SIGNATURE" -> <<"U+2717", " ", "INVALID_SIGNATURE">>
                  [] r = "ERROR_RATE_LIMIT_EXCEEDED" -> <<"U+2717", " ", "RATE_LIMIT_EXCEEDED">>
                  [] r = "ERROR_CONSENT_INVALID" -> <<"U+2717", " ", "CONSENT_INVALID">>
                  [] r = "ERROR_NULL_POINTER" -> <<"U+2717", " ", "NULL_POINTER">>
                  [] r = "ERROR_INTERNAL" -> <<"U+2717", " ", "INTERNAL_ERROR">>]
    IN  IF result \in DOMAIN table
        THEN table[result]
        ELSE <<"U+2717", " ", "UNKNOWN_ERROR">>

----------------------------------------------------------------------------
(* StampMock.res: the ReScript verifiers.  A verdict is a constructor of    *)
(* the variant verificationResult; Js.Date.now() is the variable now.       *)

\* a probe of exactly 200 ms is let through
verifyUnsubscribeRes_LatencyInclusive(params) ==
    LET age_ms == TSub(now, params.tested_at) IN
    IF ~startsWith(params.url, Https) THEN "ErrorInvalidUrl"
    ELSE IF TLt(Ms(60000), age_ms) \/ TLt(age_ms, Ms(0)) THEN "ErrorTimeout"
    ELSE IF params.response_code # 200 THEN "ErrorInvalidResponse"
    ELSE IF params.response_time > 200 THEN "ErrorTimeout"
    ELSE IF params.signature = EmptyText THEN "ErrorInvalidSignature"
    ELSE "Success"

verifyUnsubscribeRes(params) ==
    LET age_ms == TSub(now, params.tested_at) IN
    IF ~startsWith(params.url, Https) THEN "ErrorInvalidUrl"
    ELSE IF TLt(Ms(60000), age_ms) \/ TLt(age_ms, Ms(0)) THEN "ErrorTimeout"
    ELSE IF params.response_code # 200 THEN "ErrorInvalidResponse"
    ELSE IF params.response_time >= 200 THEN "ErrorTimeout"
    ELSE IF params.signature = EmptyText THEN "ErrorInvalidSignature"
    ELSE "Success"

verifyConsentRes(params) ==
    IF TLe(params.confirmation, params.initial_request) THEN "ErrorConsentInvalid"
    ELSE LET time_diff == TSub(params.confirmation, params.initial_request) IN
         IF TLt(Ms(86400000), time_diff) THEN "ErrorConsentInvalid"
         ELSE IF params.token = EmptyText THEN "ErrorInvalidSignature"
         ELSE "Success"

\* age_days = age_ms /. 86400000.0, compared with 30.0 and 90.0
max_limitRes(age_ms) ==
    IF TLt(age_ms, Days(30)) THEN 1000
    ELSE IF TLt(age_ms, Days(90)) THEN 10000
    ELSE 100000

verifyRateLimitRes(params) ==
    IF params.messages_today >= params.daily_limit THEN "ErrorRateLimitExceeded"
    ELSE LET age_ms == TSub(now, params.account_created) IN
         IF params.daily_limit > max_limitRes(age_ms) THEN "ErrorRateLimitExceeded"
         ELSE "Success"

resultToStringRes(result) ==
    CASE result = "Success" -> <<"U+2713", " ", "SUCCESS">>
      [] result = "ErrorInvalidUrl" -> <<"U+2717", " ", "INVALID_URL">>
      [] result = "ErrorTimeout" -> <<"U+2717", " ", "TIMEOUT">>
      [] result = "ErrorInvalidResponse" -> <<"U+2717", " ", "INVALID_RESPONSE">>
      [] result = "ErrorInvalidSignature" -> <<"U+2717", " ", "INVALID_SIGNATURE">>
      [] result = "ErrorRateLimitExceeded" -> <<"U+2717", " ", "RATE_LIMIT_EXCEEDED">>
      [] result = "ErrorConsentInvalid" -> <<"U+2717", " ", "CONSENT_INVALID">>
      [] result = "ErrorNullPointer" -> <<"U+2717", " ", "NULL_POINTER">>
      [] result = "ErrorInternal" -> <<"U+2717", " ", "INTERNAL_ERROR">>

----------------------------------------------------------------------------
(* stamp-mock.ts: proofs and helpers.  random is what Math.random() gave.  *)

generateProof(type, params, random) ==
    [type |-> type \o "_verification",
     data |-> params,
     timestamp |-> now,
     signature |-> <<"mock_sig_", now, "_", random>>]

\* the type string is built from the variant's name
generateProofRes_VariantName(type_, data, random) ==
    [type_ |-> type_ \o "_verification",
     data |-> data,
     timestamp |-> now,
     signature |-> <<"mock_sig_", now, "_", random>>]

\* StampMock.res generateProof; type_ is one of the variants #unsubscribe,
\* #consent, #rateLimit
generateProofRes(type_, data, random) ==
    [type_ |-> CASE type_ = "unsubscribe" -> "unsubscribe_verification"
                 [] type_ = "consent" -> "consent_verification"
                 [] type_ = "rateLimit" -> "rate_limit_verification",
     data |-> data,
     timestamp |-> now,
     signature |-> <<"mock_sig_", now, "_", random>>]

\* the token is left out of the text
stringifyUnsubscribeParams_RedactsToken(p) ==
    << <<"url", p.url>>, <<"tested_at", p.tested_at>>,
       <<"response_code", p.response_code>>, <<"response_time", p.response_time>>,
       <<"signature", p.signature>> >>

\* JSON.stringify of an object: its keys and values in insertion order
stringifyUnsubscribeParams(p) ==
    << <<"url", p.url>>, <<"tested_at", p.tested_at>>,
       <<"response_code", p.response_code>>, <<"response_time", p.response_time>>,
       <<"token", p.token>>, <<"signature", p.signature>> >>

stringifyConsentParams(p) ==
    << <<"initial_request", p.initial_request>>, <<"confirmation", p.confirmation>>,
       <<"ip_address", p.ip_address>>, <<"token", p.token>> >>

stringifyRateLimitParams(p) ==
    << <<"sender_id", p.sender_id>>, <<"account_created", p.account_created>>,
       <<"messages_today", p.messages_today>>, <<"daily_limit", p.daily_limit>> >>

formatProof(proof) ==
    << <<"type", proof.type>>,
       <<"data", CASE proof.type = "unsubscribe_verification" ->
                        stringifyUnsubscribeParams(proof.data)
                   [] proof.type = "consent_verification" ->
                        stringifyConsentParams(proof.data)
                   [] OTHER -> stringifyRateLimitParams(proof.data)>>,
       <<"timestamp", proof.timestamp>>,
       <<"signature", proof.signature>> >>

\* JSON.parse of an object's text
JSONparse(text) ==
    [k \in {text[i][1] : i \in DOMAIN text} |->
        LET i == CHOOSE j \in DOMAIN text :
                    text[j][1] = k /\ \A l \in DOMAIN text : text[l][1] = k => l <= j
        IN  text[i][2]]

\* JSON.parse of a proof's text: the object and the object nested under data
parseProof(text) ==
    LET proof == JSONparse(text) IN [proof EXCEPT !.data = JSONparse(@)]

generateUnsubscribeUrl(userId, token) ==
    Https \o <<"stamp-bot.example.com/unsubscribe?user=", userId, "&token=">> \o token

\* testUnsubscribeUrl after its timer fired; start is the Date.now() it began with
testUnsubscribeUrl_result(url, start) ==
    [response_code |-> IF startsWith(url, Https) THEN 200 ELSE 404,
     response_time |-> (now.d - start.d) * DayMs + (now.ms - start.ms)]

generateToken(userId, random) == <<userId, "_", now, "_", random>>

generateSignature(data, random) == <<"sig_", now, "_", Len(data), "_", random>>

----------------------------------------------------------------------------
(* database.ts: class Database over SQLite.  A row of users is kept as SQLite *)
(* keeps it (subscribed is 1 or 0); getUser converts it.                      *)

\* null where an object is expected, and null where a text is expected
Null == [null |-> TRUE]
NullText == <<"null">>

subscribeUser_Insert(u, telegram_id, username, consent_token, consent_proof) ==
    (telegram_id :> [username |-> username,
                     subscribed |-> 1,
                     consent_timestamp |-> now,
                     consent_token |-> consent_token,
                     consent_proof |-> consent_proof,
                     created_at |-> now,
                     updated_at |-> now])
        @@ u

\* INSERT OR REPLACE: the row is written anew
subscribeUser_Replace(u, telegram_id, username, consent_token, consent_proof) ==
    subscribeUser_Insert(u, telegram_id, username, consent_token, consent_proof)

\* the conflict branch leaves consent_timestamp as it was
subscribeUser_KeepsTimestamp(u, telegram_id, username, consent_token, consent_proof) ==
    IF telegram_id \in DOMAIN u
    THEN [u EXCEPT ![telegram_id] =
            [@ EXCEPT !.subscribed = 1,
                      !.consent_token = consent_token,
                      !.consent_proof = consent_proof,
                      !.updated_at = now]]
    ELSE subscribeUser_Insert(u, telegram_id, username, consent_token, consent_proof)

\* the conflict branch leaves the stored token as it was
subscribeUser_KeepsToken(u, telegram_id, username, consent_token, consent_proof) ==
    IF telegram_id \in DOMAIN u
    THEN [u EXCEPT ![telegram_id] =
            [@ EXCEPT !.subscribed = 1,
                      !.consent_timestamp = now,
                      !.consent_proof = consent_proof,
                      !.updated_at = now]]
    ELSE subscribeUser_Insert(u, telegram_id, username, consent_token, consent_proof)

\* the conflict branch leaves the stored proof as it was
subscribeUser_KeepsProof(u, telegram_id, username, consent_token, consent_proof) ==
    IF telegram_id \in DOMAIN u
    THEN [u EXCEPT ![telegram_id] =
            [@ EXCEPT !.subscribed = 1,
                      !.consent_timestamp = now,
                      !.consent_token = consent_token,
                      !.updated_at = now]]
    ELSE subscribeUser_Insert(u, telegram_id, username, consent_token, consent_proof)

\* INSERT ... ON CONFLICT(telegram_id) DO UPDATE SET ...
subscribeUser(u, telegram_id, username, consent_token, consent_proof) ==
    IF telegram_id \in DOMAIN u
    THEN [u EXCEPT ![telegram_id] =
            [@ EXCEPT !.subscribed = 1,
                      !.consent_timestamp = now,
                      !.consent_token = consent_token,
                      !.consent_proof = consent_proof,
                      !.updated_at = now]]
    ELSE subscribeUser_Insert(u, telegram_id, username, consent_token, consent_proof)

\* DELETE FROM users WHERE telegram_id = ?
unsubscribeUser_Delete(u, telegram_id) ==
    [i \in DOMAIN u \ {telegram_id} |-> u[i]]

unsubscribeUser_Unguarded(u, telegram_id) ==
    IF telegram_id \in DOMAIN u
    THEN [u EXCEPT ![telegram_id] = [@ EXCEPT !.subscribed = 0, !.updated_at = now]]
    ELSE u

\* UPDATE users SET subscribed = 0, updated_at = ? WHERE telegram_id = ? AND subscribed = 1
unsubscribeUser(u, telegram_id) ==
    IF telegram_id \in DOMAIN u /\ u[telegram_id].subscribed = 1
    THEN [u EXCEPT ![telegram_id] = [@ EXCEPT !.subscribed = 0, !.updated_at = now]]
    ELSE u

\* The rows db.query returns for that UPDATE: the statement has no RETURNING
\* clause, so it yields no row whether or not it changed one.
unsubscribeUser_result(u, telegram_id) == <<>>

\* return result.length > 0
unsubscribeUser_return(u, telegram_id) == Len(unsubscribeUser_result(u, telegram_id)) > 0

getUser(u, telegram_id) ==
    IF telegram_id \notin DOMAIN u THEN Null
    ELSE LET row == u[telegram_id] IN
         [telegram_id |-> telegram_id,
          username |-> row.username,
          subscribed |-> (row.subscribed = 1),
          consent_timestamp |-> row.consent_timestamp,
          consent_token |-> row.consent_token,
          consent_proof |-> row.consent_proof,
          created_at |-> row.created_at,
          updated_at |-> row.updated_at]

\* whoever has a row counts as subscribed
isSubscribed_RowExists(u, telegram_id) ==
    LET user == getUser(u, telegram_id) IN user # Null

isSubscribed(u, telegram_id) ==
    LET user == getUser(u, telegram_id) IN user # Null /\ user.subscribed

RECURSIVE RowsInIdOrder(_, _)
RowsInIdOrder(u, ids) ==
    IF ids = {} THEN <<>>
    ELSE LET least == CHOOSE i \in ids : \A j \in ids : i <= j
         IN  <<getUser(u, least)>> \o RowsInIdOrder(u, ids \ {least})

\* SELECT ... FROM users WHERE subscribed = 1 (a table scan, in rowid order)
getSubscribedUsers(u) ==
    RowsInIdOrder(u, {i \in DOMAIN u : u[i].subscribed = 1})

\* FOREIGN KEY (telegram_id) REFERENCES users(telegram_id)
ForeignKeyOk_Unchecked(u, telegram_id) == TRUE

ForeignKeyOk(u, telegram_id) == telegram_id \in DOMAIN u

\* ids are numbered per recipient instead of by the table's AUTOINCREMENT
recordMessage_row_PerRecipient(telegram_id, subject, body, proof) ==
    [id |-> 1 + Cardinality({k \in DOMAIN messages :
                                messages[k].telegram_id = telegram_id}),
     telegram_id |-> telegram_id,
     subject |-> subject,
     body |-> body,
     sent_at |-> now,
     proof |-> proof]

\* INSERT INTO messages ... RETURNING id; the row inserted when the insert succeeds
recordMessage_row(telegram_id, subject, body, proof) ==
    [id |-> autoinc + 1,
     telegram_id |-> telegram_id,
     subject |-> subject,
     body |-> body,
     sent_at |-> now,
     proof |-> proof]

\* what recordMessage does to the users table: its one statement is the INSERT
\* INTO messages, and the schema has no trigger
recordMessage_users_Touch(u, telegram_id) ==
    [u EXCEPT ![telegram_id] = [@ EXCEPT !.updated_at = now]]

recordMessage_users(u, telegram_id) == u

\* ORDER BY sent_at DESC over the rows k of m: each possible order, rows of equal
\* sent_at coming in any order (SQL leaves the order of ties open)
RECURSIVE OrdersBySentAtDesc(_, _)
OrdersBySentAtDesc(m, rows) ==
    IF rows = {} THEN {<<>>}
    ELSE UNION {{<<m[k]>> \o rest : rest \in OrdersBySentAtDesc(m, rows \ {k})} :
                    k \in {k \in rows : \A j \in rows : TLe(m[j].sent_at, m[k].sent_at)}}

\* LIMIT ?
Limit(rows, limit) ==
    SubSeq(rows, 1, IF limit < Len(rows) THEN limit ELSE Len(rows))

\* ORDER BY sent_at ASC
getUserMessages_OldestFirst(m, telegram_id, limit) ==
    {Limit([j \in 1..Len(rows) |-> rows[Len(rows) + 1 - j]], limit) :
        rows \in OrdersBySentAtDesc(m, {k \in DOMAIN m : m[k].telegram_id = telegram_id})}

\* SELECT ... FROM messages WHERE telegram_id = ? ORDER BY sent_at DESC LIMIT ?:
\* the results the query can give
getUserMessages(m, telegram_id, limit) ==
    {Limit(rows, limit) :
        rows \in OrdersBySentAtDesc(m, {k \in DOMAIN m : m[k].telegram_id = telegram_id})}

\* getLastMessage, given what getUserMessages(telegram_id, 1) returned
getLastMessage(found) == IF Len(found) > 0 THEN found[1] ELSE Null

\* both user counts are taken over all rows
getStats_NoFilter(u, m) ==
    [total_users |-> Cardinality(DOMAIN u),
     subscribed_users |-> Cardinality(DOMAIN u),
     total_messages |-> Len(m)]

\* three SELECT COUNT(*)
getStats(u, m) ==
    [total_users |-> Cardinality(DOMAIN u),
     subscribed_users |-> Cardinality({i \in DOMAIN u : u[i].subscribed = 1}),
     total_messages |-> Len(m)]

----------------------------------------------------------------------------
(* SpecVerify: one input record, verified up to MaxCalls times while the   *)
(* clock moves between the calls.                                          *)

T0 == [d |-> 100, ms |-> 70000]

VNows == {T0, TAdd(T0, 1), TAdd(T0, 60000)}

UnsubscribeInputs ==
    [url : {Https \o <<"x/y">>, Http \o <<"x/y">>, <<"not_https">>},
     tested_at : {TAdd(T0, -60001), TAdd(T0, -60000), TAdd(T0, -5000), T0, TAdd(T0, 1)},
     response_code : {200, 404},
     response_time : {87, 199, 200, 250},
     token : {<<"abc123">>},
     signature : {EmptyText, <<"s">>}]

ConsentInputs ==
    [initial_request : {T0},
     confirmation : {TAdd(T0, -10), T0, TAdd(T0, 1), TAdd(T0, 30000),
                     TAdd(T0, 86400000), TAdd(T0, 86400001)},
     ip_address : {<<"192.168.1.1">>},
     token : {EmptyText, <<"abc">>}]

RateLimitInputs ==
    [sender_id : {<<"sender">>},
     account_created : {TSub(T0, Days(10)), TAdd(TSub(T0, Days(30)), 1), TSub(T0, Days(30)),
                        TAdd(TSub(T0, Days(90)), 1), TSub(T0, Days(90)), TAdd(T0, 5000)},
     messages_today : {0, 500, 1000, 10000},
     daily_limit : {0, 1000, 1001, 5000, 10000, 10001, 100000, 100001}]

StoreInit ==
    /\ users = <<>>
    /\ messages = <<>>
    /\ autoinc = 0
    /\ ret = [op |-> "none"]

BotInit ==
    /\ cmd = [h \in Handlers |-> [pc |-> "idle"]]
    /\ bc = [pc |-> "idle", round |-> 0]
    /\ sends = {}

VerifyIdle ==
    /\ vkind = "none"
    /\ vinput = <<>>
    /\ calls = <<>>

InitVerify ==
    /\ now = T0
    /\ StoreInit
    /\ BotInit
    /\ calls = <<>>
    /\ \/ vkind = "unsubscribe" /\ vinput \in UnsubscribeInputs
       \/ vkind = "consent" /\ vinput \in ConsentInputs
       \/ vkind = "rate_limit" /\ vinput \in RateLimitInputs

CallVerifyUnsubscribe ==
    /\ vkind = "unsubscribe"
    /\ Len(calls) < MaxCalls
    /\ calls' = Append(calls, [at |-> now,
                              verdict |-> verifyUnsubscribe(vinput),
                              res |-> verifyUnsubscribeRes(vinput)])
    /\ UNCHANGED <<now, storeVars, botVars, vkind, vinput>>

CallVerifyConsent ==
    /\ vkind = "consent"
    /\ Len(calls) < MaxCalls
    /\ calls' = Append(calls, [at |-> now,
                              verdict |-> verifyConsent(vinput),
                              res |-> verifyConsentRes(vinput)])
    /\ UNCHANGED <<now, storeVars, botVars, vkind, vinput>>

CallVerifyRateLimit ==
    /\ vkind = "rate_limit"
    /\ Len(calls) < MaxCalls
    /\ calls' = Append(calls, [at |-> now,
                              verdict |-> verifyRateLimit(vinput),
                              res |-> verifyRateLimitRes(vinput)])
    /\ UNCHANGED <<now, storeVars, botVars, vkind, vinput>>

VerifyClock ==
    /\ Len(calls) < MaxCalls
    /\ \E t \in VNows : TLt(now, t) /\ now' = t
    /\ UNCHANGED <<storeVars, botVars, verifyVars>>

NextVerify ==
    \/ CallVerifyUnsubscribe
    \/ CallVerifyConsent
    \/ CallVerifyRateLimit
    \/ VerifyClock

SpecVerify == InitVerify /\ [][NextVerify]_vars

----------------------------------------------------------------------------
(* Claims about the verifiers (SpecVerify) *)

\* a - b in milliseconds, for timestamps a few days apart
DiffMs(a, b) == (a.d - b.d) * DayMs + (a.ms - b.ms)

IsHttps(url) == Len(url) >= 8 /\ \A i \in 1..8 : url[i] = Https[i]

ProbeFresh(p, t) == DiffMs(t, p.tested_at) >= 0 /\ DiffMs(t, p.tested_at) <= 60000

LinkLive(p, t) ==
    /\ IsHttps(p.url)
    /\ ProbeFresh(p, t)
    /\ p.response_code = 200
    /\ p.response_time < 200
    /\ p.signature # EmptyText

\* C4: verifyUnsubscribe returns SUCCESS exactly when the url starts with
\* "https://", 0 <= now - tested_at <= 60000, response_code = 200,
\* response_time < 200 and the signature is non-empty; no non-HTTPS url is verified.
C4_LinkLivenessIff ==
    vkind = "unsubscribe" =>
        \A k \in DOMAIN calls :
            /\ (calls[k].verdict = "SUCCESS") <=> LinkLive(vinput, calls[k].at)
            /\ ~IsHttps(vinput.url) => calls[k].verdict # "SUCCESS"

C4_Witness ==
    /\ vkind = "unsubscribe"
    /\ \E k \in DOMAIN calls :
        /\ calls[k].verdict = "SUCCESS"
        /\ DiffMs(calls[k].at, vinput.tested_at) = 5000
        /\ vinput.response_time = 87

\* C5: verifyUnsubscribe returns the verdict of the first failing check in the
\* order scheme (INVALID_URL), probe age (TIMEOUT), status (INVALID_RESPONSE),
\* latency (TIMEOUT), signature (INVALID_SIGNATURE); a url that is not https
\* gives INVALID_URL whatever the other fields are.
C5_FirstFailingCheck ==
    vkind = "unsubscribe" =>
        \A k \in DOMAIN calls :
            LET v == calls[k].verdict
                p == vinput
                fresh == ProbeFresh(p, calls[k].at)
            IN  /\ ~IsHttps(p.url) => v = "ERROR_INVALID_URL"
                /\ IsHttps(p.url) /\ ~fresh => v = "ERROR_TIMEOUT"
                /\ IsHttps(p.url) /\ fresh /\ p.response_code # 200
                    => v = "ERROR_INVALID_RESPONSE"
                /\ IsHttps(p.url) /\ fresh /\ p.response_code = 200
                        /\ p.response_time >= 200
                    => v = "ERROR_TIMEOUT"
                /\ IsHttps(p.url) /\ fresh /\ p.response_code = 200
                        /\ p.response_time < 200 /\ p.signature = EmptyText
                    => v = "ERROR_INVALID_SIGNATURE"

C5_Witness ==
    /\ vkind = "unsubscribe"
    /\ IsHttps(vinput.url)
    /\ vinput.response_code # 200
    /\ vinput.response_time >= 200
    /\ vinput.signature = EmptyText
    /\ \E k \in DOMAIN calls :
        /\ ~ProbeFresh(vinput, calls[k].at)
        /\ calls[k].verdict = "ERROR_TIMEOUT"

\* C6: verifyConsent returns SUCCESS exactly when
\* 0 < confirmation - initial_request <= 86400000 and the token is non-empty.
C6_ConsentIff ==
    vkind = "consent" =>
        \A k \in DOMAIN calls :
            LET lag == DiffMs(vinput.confirmation, vinput.initial_request) IN
            (calls[k].verdict = "SUCCESS")
                <=> (0 < lag /\ lag <= 86400000 /\ vinput.token # EmptyText)

C6_Witness ==
    /\ vkind = "consent"
    /\ DiffMs(vinput.confirmation, vinput.initial_request) = 86400000
    /\ \E k \in DOMAIN calls : calls[k].verdict = "SUCCESS"

TierCeiling(age) == IF age.d < 30 THEN 1000 ELSE IF age.d < 90 THEN 10000 ELSE 100000

AgeSamples ==
    {TSub(t, c) : t \in VNows, c \in {r.account_created : r \in RateLimitInputs}}

\* C7: when messages_today < daily_limit, verifyRateLimit returns SUCCESS exactly
\* when daily_limit <= the tier ceiling of the account age (1000 under 30 days,
\* 10000 from 30 to under 90 days, 100000 from 90 days); a limit equal to the
\* ceiling is accepted and the ceiling never decreases with age.
C7_RateLimitCeiling ==
    /\ vkind = "rate_limit" =>
        \A k \in DOMAIN calls :
            LET age == TSub(calls[k].at, vinput.account_created) IN
            vinput.messages_today < vinput.daily_limit =>
                ((calls[k].verdict = "SUCCESS")
                    <=> vinput.daily_limit <= TierCeiling(age))
    /\ \A a1, a2 \in AgeSamples : TLe(a1, a2) => max_limit(a1) <= max_limit(a2)

C7_Witness ==
    /\ vkind = "rate_limit"
    /\ vinput.messages_today < vinput.daily_limit
    /\ \E k \in DOMAIN calls :
        /\ vinput.daily_limit = TierCeiling(TSub(calls[k].at, vinput.account_created))
        /\ calls[k].verdict = "SUCCESS"

\* C8 as claimed: for one and the same input record each verifier returns the
\* same verdict whatever the current time at which it is called.
C8_VerdictIgnoresClock ==
    \A i, j \in DOMAIN calls : calls[i].verdict = calls[j].verdict

\* C8 amended: verifyConsent returns the same verdict whatever the current time;
\* verifyUnsubscribe and verifyRateLimit read the clock, and two calls on one
\* input agree when the probe age is on the same side of the window [0, 60000]
\* at both times, respectively the account age is in the same tier at both.
C8_ClockOnlyThroughAge ==
    \A i, j \in DOMAIN calls :
        LET same ==
                CASE vkind = "consent" -> TRUE
                  [] vkind = "unsubscribe" ->
                        ProbeFresh(vinput, calls[i].at) = ProbeFresh(vinput, calls[j].at)
                  [] vkind = "rate_limit" ->
                        TierCeiling(TSub(calls[i].at, vinput.account_created))
                            = TierCeiling(TSub(calls[j].at, vinput.account_created))
                  [] OTHER -> TRUE
        IN  same => calls[i].verdict = calls[j].verdict

C8_Witness ==
    /\ vkind = "consent"
    /\ Len(calls) = 2
    /\ calls[1].at # calls[2].at
    /\ calls[1].verdict = "SUCCESS"
    /\ calls[2].verdict = "SUCCESS"

----------------------------------------------------------------------------
(* SpecStore: the Database methods called in any order with any arguments. *)

TickMs == 100

Tick ==
    /\ TLt(now, TAdd(T0, MaxTicks * TickMs))
    /\ now' = TAdd(now, TickMs)

StoreTokens == {<<"tokA">>, <<"tokB">>}
StoreNames == {<<"bob">>}
StoreProof(token) == <<"proof of">> \o token
Subject == <<"Weekly STAMP Demo Update">>
Body == <<"This is a demo message from the STAMP protocol bot.">>

InitStore ==
    /\ now = T0
    /\ StoreInit
    /\ BotInit
    /\ VerifyIdle

\* had: the token the row held when the call was made
StoreSubscribe ==
    \E i \in Ids, n \in StoreNames, t \in StoreTokens :
        /\ users' = subscribeUser(users, i, n, t, StoreProof(t))
        /\ ret' = [op |-> "subscribeUser", id |-> i, at |-> now, threw |-> FALSE,
                   consent_token |-> t, consent_proof |-> StoreProof(t),
                   had |-> IF i \in DOMAIN users THEN users[i].consent_token
                           ELSE NullText]
        /\ UNCHANGED <<now, messages, autoinc, botVars, verifyVars>>

\* was: whether the row was subscribed when the call was made
StoreUnsubscribe ==
    \E i \in Ids :
        /\ users' = unsubscribeUser(users, i)
        /\ ret' = [op |-> "unsubscribeUser", id |-> i, at |-> now, threw |-> FALSE,
                   value |-> unsubscribeUser_return(users, i),
                   was |-> isSubscribed(users, i)]
        /\ UNCHANGED <<now, messages, autoinc, botVars, verifyVars>>

StoreRecordMessage ==
    \E i \in Ids :
        /\ Len(messages) < MaxMessages
        /\ IF ForeignKeyOk(users, i)
           THEN LET row == recordMessage_row(i, Subject, Body, StoreProof(<<"msg">>))
                IN  /\ messages' = Append(messages, row)
                    /\ autoinc' = autoinc + 1
                    /\ users' = recordMessage_users(users, i)
                    /\ ret' = [op |-> "recordMessage", id |-> i, at |-> now,
                               threw |-> FALSE, value |-> row.id]
           ELSE \* SqliteError: FOREIGN KEY constraint failed
                /\ ret' = [op |-> "recordMessage", id |-> i, at |-> now, threw |-> TRUE]
                /\ UNCHANGED <<users, messages, autoinc>>
        /\ UNCHANGED <<now, botVars, verifyVars>>

StoreTick ==
    /\ Tick
    /\ UNCHANGED <<storeVars, botVars, verifyVars>>

NextStore ==
    \/ StoreSubscribe
    \/ StoreUnsubscribe
    \/ StoreRecordMessage
    \/ StoreTick

SpecStore == InitStore /\ [][NextStore]_vars

----------------------------------------------------------------------------
(* SpecQuery: the Database methods of SpecStore and its reading methods,   *)
(* called in any order.                                                    *)

\* limit of /verify (getLastMessage) and of /status
Limits == {1, 5}

StoreGetUser ==
    \E i \in Ids :
        /\ ret' = [op |-> "getUser", id |-> i, threw |-> FALSE,
                   value |-> getUser(users, i)]
        /\ UNCHANGED <<now, users, messages, autoinc, botVars, verifyVars>>

StoreIsSubscribed ==
    \E i \in Ids :
        /\ ret' = [op |-> "isSubscribed", id |-> i, threw |-> FALSE,
                   value |-> isSubscribed(users, i)]
        /\ UNCHANGED <<now, users, messages, autoinc, botVars, verifyVars>>

StoreGetSubscribedUsers ==
    /\ ret' = [op |-> "getSubscribedUsers", threw |-> FALSE,
               value |-> getSubscribedUsers(users)]
    /\ UNCHANGED <<now, users, messages, autoinc, botVars, verifyVars>>

StoreGetUserMessages ==
    \E i \in Ids, limit \in Limits :
        \E found \in getUserMessages(messages, i, limit) :
            /\ ret' = [op |-> "getUserMessages", id |-> i, limit |-> limit,
                       threw |-> FALSE, value |-> found]
            /\ UNCHANGED <<now, users, messages, autoinc, botVars, verifyVars>>

StoreGetLastMessage ==
    \E i \in Ids :
        \E found \in getUserMessages(messages, i, 1) :
            /\ ret' = [op |-> "getLastMessage", id |-> i, threw |-> FALSE,
                       value |-> getLastMessage(found)]
            /\ UNCHANGED <<now, users, messages, autoinc, botVars, verifyVars>>

StoreGetStats ==
    /\ ret' = [op |-> "getStats", threw |-> FALSE, value |-> getStats(users, messages)]
    /\ UNCHANGED <<now, users, messages, autoinc, botVars, verifyVars>>

NextQuery ==
    \/ NextStore
    \/ StoreGetUser
    \/ StoreIsSubscribed
    \/ StoreGetSubscribedUsers
    \/ StoreGetUserMessages
    \/ StoreGetLastMessage
    \/ StoreGetStats

SpecQuery == InitStore /\ [][NextQuery]_vars

----------------------------------------------------------------------------
(* Claims about the store (SpecStore) *)

\* C1 as claimed: unsubscribe(identity) returns true exactly when the identity
\* was subscribed at the moment of the call (true then false when called twice,
\* false for an unknown identity), and the flag is false after the call.
C1_UnsubscribeReturnsWhetherChanged ==
    ret.op = "unsubscribeUser" =>
        /\ ret.value = ret.was
        /\ ~isSubscribed(users, ret.id)

\* C2: recordMessage throws and inserts nothing when the identity has no row in
\* users, and every row of messages references an existing row of users.
C2_ReferentialIntegrity ==
    /\ [](\A k \in DOMAIN messages : messages[k].telegram_id \in DOMAIN users)
    /\ [][(ret'.op = "recordMessage" /\ ret'.id \notin DOMAIN users)
            => (ret'.threw /\ messages' = messages /\ autoinc' = autoinc)]_vars

C2_Witness ==
    /\ ret.op = "recordMessage"
    /\ ret.threw
    /\ ret.id \notin DOMAIN users
    /\ Len(messages) > 0

\* C3: each call is one conditional statement, so in every interleaving of
\* subscribe and unsubscribe calls the row shows the last call made on it (no
\* lost update), and a row whose flag is off is not changed by a further
\* unsubscribe: of two unsubscribes of a subscribed identity at most one
\* changes the row.
C3_UnsubscribeAtomic ==
    /\ [](/\ ret.op = "subscribeUser" => users[ret.id].subscribed = 1
          /\ (ret.op = "unsubscribeUser" /\ ret.id \in DOMAIN users)
                => users[ret.id].subscribed = 0)
    /\ [][\A i \in DOMAIN users :
            (users[i].subscribed = 0 /\ users'[i] # users[i])
                => users'[i].subscribed = 1]_vars

C3_Witness ==
    /\ ret.op = "unsubscribeUser"
    /\ ~ret.was
    /\ ret.id \in DOMAIN users
    /\ TLt(users[ret.id].updated_at, ret.at)
    /\ TLt(users[ret.id].created_at, users[ret.id].updated_at)

----------------------------------------------------------------------------
(* Spec: bot.ts.  bot.start() polls, and hands the next update to the       *)
(* middleware when the handler of the previous one has settled; the         *)
(* broadcast started by setInterval (bc) runs between the awaits of the     *)
(* handlers.  Each action is the synchronous code from one await to the     *)
(* next.                                                                    *)

Randoms == {7}
BotNames == [i \in Ids |-> <<"bob">>]
ProbeMinDelay == 50     \* setTimeout(resolve, 50 + Math.random() * 100)
SendPause == 100        \* setTimeout(resolve, 100)

Elapsed(start) == (now.d - start.d) * DayMs + (now.ms - start.ms)

Init ==
    /\ now = T0
    /\ StoreInit
    /\ BotInit
    /\ VerifyIdle

\* updates are handed over without waiting for the handlers still running,
\* as a webhook or a concurrent runner would
handleUpdates_Concurrent(running) ==
    \E h \in Handlers : running[h].pc = "idle"

\* bot.start(): long polling handles the updates one after the other, the next
\* one when the handler of the previous one has settled
handleUpdates(running) ==
    \A h \in Handlers : running[h].pc = "idle"

\* the handler invocation that takes the next update
NextHandler(running) ==
    CHOOSE h \in Handlers :
        /\ running[h].pc = "idle"
        /\ \A g \in Handlers : running[g].pc = "idle" => h <= g

\* ctx.reply(...) is called and awaited: the handler ends when it settles
Reply(h, to, text) ==
    cmd' = [cmd EXCEPT ![h] = [pc |-> "reply", to |-> to, text |-> text]]

\* bot.command("start"), up to its await of ctx.reply
StartCommand ==
    \E userId \in Ids, random \in Randoms :
        /\ handleUpdates(cmd)
        /\ IF isSubscribed(users, userId)
           THEN /\ Reply(NextHandler(cmd), userId, "already subscribed")
                /\ UNCHANGED users
           ELSE LET consent_params ==
                        [initial_request |-> TAdd(now, -1000),
                         confirmation |-> now,
                         ip_address |-> <<"telegram_user">>,
                         token |-> generateToken(userId, random)]
                    consent_result == verifyConsent(consent_params)
                    consent_proof == generateProof("consent", consent_params, random)
                IN  IF consent_result # "SUCCESS"
                    THEN /\ Reply(NextHandler(cmd), userId, "consent verification failed")
                         /\ UNCHANGED users
                    ELSE /\ users' = subscribeUser(users, userId, BotNames[userId],
                                        consent_params.token, formatProof(consent_proof))
                         /\ Reply(NextHandler(cmd), userId, "subscription confirmed")
        /\ UNCHANGED <<now, messages, autoinc, ret, bc, sends, verifyVars>>

\* bot.command("unsubscribe"), up to its await of testUnsubscribeUrl or ctx.reply
UnsubscribeCommand ==
    \E userId \in Ids :
        /\ handleUpdates(cmd)
        /\ IF ~isSubscribed(users, userId)
           THEN Reply(NextHandler(cmd), userId, "not subscribed")
           ELSE LET user == getUser(users, userId) IN
                /\ cmd' = [cmd EXCEPT ![NextHandler(cmd)] =
                            [pc |-> "probe",
                             userId |-> userId,
                             user |-> user,
                             unsub_url |-> generateUnsubscribeUrl(userId, user.consent_token),
                             start |-> now]]
        /\ UNCHANGED <<now, storeVars, bc, sends, verifyVars>>

\* bot.command("unsubscribe"), from the probe's result to its await of ctx.reply
UnsubscribeProbed ==
    \E h \in Handlers, random \in Randoms :
        /\ cmd[h].pc = "probe"
        /\ Elapsed(cmd[h].start) >= ProbeMinDelay
        /\ LET test_result == testUnsubscribeUrl_result(cmd[h].unsub_url, cmd[h].start)
               unsub_params ==
                    [url |-> cmd[h].unsub_url,
                     tested_at |-> now,
                     response_code |-> test_result.response_code,
                     response_time |-> test_result.response_time,
                     token |-> cmd[h].user.consent_token,
                     signature |-> generateSignature(cmd[h].unsub_url, random)]
               verify_result == verifyUnsubscribe(unsub_params)
           IN  IF verify_result # "SUCCESS"
               THEN /\ Reply(h, cmd[h].userId, "unsubscribe verification failed")
                    /\ UNCHANGED users
               ELSE /\ users' = unsubscribeUser(users, cmd[h].userId)
                    /\ Reply(h, cmd[h].userId, "unsubscribed successfully")
        /\ UNCHANGED <<now, messages, autoinc, ret, bc, sends, verifyVars>>

\* bot.command("verify"), up to its await of ctx.reply: the reply shows the
\* subject, the sent_at and the parsed proof of the last message
VerifyCommand ==
    \E userId \in Ids :
        /\ handleUpdates(cmd)
        /\ \E found \in getUserMessages(messages, userId, 1) :
            LET last_message == getLastMessage(found) IN
            IF last_message = Null
            THEN Reply(NextHandler(cmd), userId, "no messages to verify")
            ELSE Reply(NextHandler(cmd), userId, "verification proof")
        /\ UNCHANGED <<now, storeVars, bc, sends, verifyVars>>

\* bot.command("status"), up to its await of ctx.reply: the reply shows the
\* row, the number of the last five messages, and the statistics
StatusCommand ==
    \E userId \in Ids :
        /\ handleUpdates(cmd)
        /\ IF getUser(users, userId) = Null
           THEN Reply(NextHandler(cmd), userId, "no subscription found")
           ELSE Reply(NextHandler(cmd), userId, "subscription status")
        /\ UNCHANGED <<now, storeVars, bc, sends, verifyVars>>

\* bot.command("help"), up to its await of ctx.reply
HelpCommand ==
    \E userId \in Ids :
        /\ handleUpdates(cmd)
        /\ Reply(NextHandler(cmd), userId, "help")
        /\ UNCHANGED <<now, storeVars, bc, sends, verifyVars>>

\* the awaited ctx.reply settles (resolved, or rejected into bot.catch)
CommandDone ==
    \E h \in Handlers :
        /\ cmd[h].pc = "reply"
        /\ cmd' = [cmd EXCEPT ![h] = [pc |-> "idle"]]
        /\ UNCHANGED <<now, storeVars, bc, sends, verifyVars>>

\* sendDemoMessages: the loop reaches the subscriber after position i, or ends
NextSubscriber(round, snapshot, i) ==
    IF i < Len(snapshot)
    THEN [pc |-> "probe", round |-> round, users |-> snapshot, i |-> i + 1,
          unsub_url |-> generateUnsubscribeUrl(snapshot[i + 1].telegram_id,
                                               snapshot[i + 1].consent_token),
          start |-> now]
    ELSE [pc |-> "idle", round |-> round]

\* the loop aborts at the first failure, as a try around the whole loop would
Caught_Abort(round, snapshot, i) ==
    [pc |-> "idle", round |-> round]

\* sendDemoMessages: the catch inside the loop body logs, and the loop goes on
Caught(round, snapshot, i) ==
    NextSubscriber(round, snapshot, i)

\* setInterval fires: sendDemoMessages up to its first await
BroadcastStart ==
    /\ bc.pc = "idle"
    /\ bc.round < MaxRounds
    /\ bc' = NextSubscriber(bc.round + 1, getSubscribedUsers(users), 0)
    /\ UNCHANGED <<now, storeVars, cmd, sends, verifyVars>>

\* sendDemoMessages: from the probe's result to the await of bot.api.sendMessage
BroadcastProbed ==
    \E random \in Randoms :
        /\ bc.pc = "probe"
        /\ Elapsed(bc.start) >= ProbeMinDelay
        /\ LET user == bc.users[bc.i]
               test_result == testUnsubscribeUrl_result(bc.unsub_url, bc.start)
               unsub_params ==
                    [url |-> bc.unsub_url,
                     tested_at |-> now,
                     response_code |-> test_result.response_code,
                     response_time |-> test_result.response_time,
                     token |-> user.consent_token,
                     signature |-> generateSignature(bc.unsub_url, random)]
               proof == generateProof("unsubscribe", unsub_params, random)
           IN  IF ForeignKeyOk(users, user.telegram_id)
               THEN /\ messages' = Append(messages,
                            recordMessage_row(user.telegram_id, Subject, Body,
                                              formatProof(proof)))
                    /\ autoinc' = autoinc + 1
                    /\ bc' = [bc EXCEPT !.pc = "send"]
               ELSE \* recordMessage throws: caught, on to the next subscriber
                    /\ bc' = Caught(bc.round, bc.users, bc.i)
                    /\ UNCHANGED <<messages, autoinc>>
        /\ UNCHANGED <<now, users, ret, cmd, sends, verifyVars>>

\* bot.api.sendMessage resolves: on to the pause
BroadcastSent ==
    /\ bc.pc = "send"
    /\ sends' = sends \cup {[round |-> bc.round, to |-> bc.users[bc.i].telegram_id,
                             ok |-> TRUE]}
    /\ bc' = [bc EXCEPT !.pc = "pause", !.start = now]
    /\ UNCHANGED <<now, storeVars, cmd, verifyVars>>

\* bot.api.sendMessage rejects: caught, on to the next subscriber
BroadcastSendFailed ==
    /\ bc.pc = "send"
    /\ sends' = sends \cup {[round |-> bc.round, to |-> bc.users[bc.i].telegram_id,
                             ok |-> FALSE]}
    /\ bc' = Caught(bc.round, bc.users, bc.i)
    /\ UNCHANGED <<now, storeVars, cmd, verifyVars>>

\* the pause after a send is over: on to the next subscriber
BroadcastPaused ==
    /\ bc.pc = "pause"
    /\ Elapsed(bc.start) >= SendPause
    /\ bc' = NextSubscriber(bc.round, bc.users, bc.i)
    /\ UNCHANGED <<now, storeVars, cmd, sends, verifyVars>>

BotTick ==
    /\ TLt(now, TAdd(T0, MaxBotTicks * TickMs))
    /\ now' = TAdd(now, TickMs)
    /\ UNCHANGED <<storeVars, botVars, verifyVars>>

Next ==
    \/ StartCommand
    \/ UnsubscribeCommand
    \/ UnsubscribeProbed
    \/ VerifyCommand
    \/ StatusCommand
    \/ HelpCommand
    \/ CommandDone
    \/ BroadcastStart
    \/ BroadcastProbed
    \/ BroadcastSent
    \/ BroadcastSendFailed
    \/ BroadcastPaused
    \/ BotTick

Spec == Init /\ [][Next]_vars

----------------------------------------------------------------------------
(* Claims about the broadcast and the proofs it stores (Spec) *)

RecordsOf(userId) == {k \in DOMAIN messages : messages[k].telegram_id = userId}

SendsTo(userId) == {s \in sends : s.to = userId /\ s.ok}

AwaitingSend(userId) == bc.pc = "send" /\ bc.users[bc.i].telegram_id = userId

\* C9 as claimed: a message record is created exactly once per successful send:
\* each subscriber has as many records as sends to them that succeeded (the send
\* still awaited aside), so a failed send leaves no record.
C9_RecordIffSendSucceeded ==
    \A userId \in Ids :
        Cardinality(RecordsOf(userId))
            = Cardinality(SendsTo(userId)) + (IF AwaitingSend(userId) THEN 1 ELSE 0)

\* C10 as claimed: every proof stored in a message record is of a link-liveness
\* input that verifies (at the time the proof was built), and every consent
\* proof stored on a subscriber is of an input on which verifyConsent succeeds.
C10_StoredProofsAreVerified ==
    /\ \A k \in DOMAIN messages :
        LET proof == JSONparse(messages[k].proof) IN
        /\ proof.type = "unsubscribe_verification"
        /\ LinkLive(JSONparse(proof.data), proof.timestamp)
    /\ \A userId \in DOMAIN users :
        LET proof == JSONparse(users[userId].consent_proof) IN
        /\ proof.type = "consent_verification"
        /\ verifyConsent(JSONparse(proof.data)) = "SUCCESS"

BroadcastStep ==
    BroadcastProbed \/ BroadcastSent \/ BroadcastSendFailed \/ BroadcastPaused

\* the run waits on the probe's timer or on the pause's timer
TimerPending ==
    \/ bc.pc = "probe" /\ Elapsed(bc.start) < ProbeMinDelay
    \/ bc.pc = "pause" /\ Elapsed(bc.start) < SendPause

\* what is left of a run: the subscribers after the current one, then the
\* stages left for the current one
Remaining(b) ==
    IF b.pc = "idle" THEN 0
    ELSE 3 * (Len(b.users) - b.i)
         + (CASE b.pc = "probe" -> 3 [] b.pc = "send" -> 2 [] b.pc = "pause" -> 1)

\* C11: a failure for one subscriber (recordMessage or the send throws) does not
\* abort the broadcast: a run starts at the first subscriber of the snapshot
\* taken by getSubscribedUsers, keeps that snapshot, goes from one position to
\* the next without skipping, and ends only after the last position; and the
\* run terminates: each of its steps leaves strictly less to do, and it is
\* never blocked by anything but one of its two timers.
C11_EverySubscriberAttempted ==
    /\ [][/\ (bc.pc = "idle" /\ bc'.pc # "idle") =>
                /\ bc'.users = getSubscribedUsers(users)
                /\ bc'.i = 1
          /\ (bc.pc # "idle" /\ bc'.pc # "idle") =>
                /\ bc'.users = bc.users
                /\ bc'.i \in {bc.i, bc.i + 1}
          /\ (bc.pc # "idle" /\ bc'.pc = "idle") => bc.i = Len(bc.users)
          /\ (bc.pc # "idle" /\ bc' # bc) => Remaining(bc') < Remaining(bc)]_vars
    /\ [](bc.pc # "idle" => (ENABLED BroadcastStep) \/ TimerPending)

\* the send to the first subscriber of the snapshot failed and the second one
\* is being attempted
C11_Witness ==
    /\ bc.pc = "probe"
    /\ bc.i = 2
    /\ [round |-> bc.round, to |-> bc.users[1].telegram_id, ok |-> FALSE] \in sends

\* the consent fields of a row, absent when there is no row
ConsentFields(u, userId) ==
    IF userId \in DOMAIN u
    THEN <<u[userId].consent_token, u[userId].consent_proof>>
    ELSE <<>>

\* C12: the consent token and the consent proof are set together and only at a
\* successful consent verification: in every row both are set (non-empty), the
\* stored proof is a consent proof whose data embeds the stored token and is an
\* input on which verifyConsent succeeds, and the two fields of a row change
\* only in the /start step that confirms the subscription.
C12_TokenAndProofTogether ==
    /\ [](\A userId \in DOMAIN users :
            LET row == users[userId]
                proof == JSONparse(row.consent_proof)
            IN  /\ row.consent_token # EmptyText
                /\ row.consent_proof # EmptyText
                /\ proof.type = "consent_verification"
                /\ JSONparse(proof.data).token = row.consent_token
                /\ verifyConsent(JSONparse(proof.data)) = "SUCCESS")
    /\ [][\A userId \in Ids :
            ConsentFields(users', userId) # ConsentFields(users, userId)
                => /\ handleUpdates(cmd)
                   /\ \E h \in Handlers :
                        /\ cmd'[h].pc = "reply"
                        /\ cmd'[h].to = userId
                        /\ cmd'[h].text = "subscription confirmed"]_vars

\* a row that was subscribed again after an unsubscribe, with a new token
C12_Witness ==
    \E userId \in DOMAIN users :
        /\ users[userId].subscribed = 1
        /\ TLt(users[userId].created_at, users[userId].consent_timestamp)

----------------------------------------------------------------------------
(* Claims about the subscriber rows and the message log (SpecStore) *)

\* C13: getUser after subscribeUser returns the token and the proof passed in,
\* a later subscribeUser with a new token overwrites them, and no other call
\* (an unsubscribe, a recordMessage, a subscribe of another identity) changes
\* them: getUser always shows the token and proof of the most recent subscribe
\* for that identity.
C13_LastSubscribeWins ==
    /\ [](ret.op = "subscribeUser" =>
            LET user == getUser(users, ret.id) IN
            /\ user # Null
            /\ user.consent_token = ret.consent_token
            /\ user.consent_proof = ret.consent_proof)
    /\ [][\A telegram_id \in DOMAIN users :
            ~(ret'.op = "subscribeUser" /\ ret'.id = telegram_id /\ ret' # ret)
                => /\ getUser(users', telegram_id).consent_token
                        = getUser(users, telegram_id).consent_token
                   /\ getUser(users', telegram_id).consent_proof
                        = getUser(users, telegram_id).consent_proof]_vars

\* a subscribe that replaced the token the row held by another one
C13_Witness ==
    /\ ret.op = "subscribeUser"
    /\ ret.had \notin {NullText, ret.consent_token}
    /\ getUser(users, ret.id).consent_token = ret.consent_token

\* a call of the named method was made in this step
Called(op) == ret'.op = op /\ ret' # ret

\* C14: subscribeUser is an upsert: it creates the row when the identity has
\* none and otherwise updates that row, so the table has the rows it had plus
\* at most the one of the identity subscribed; the row is subscribed
\* afterwards; and the created_at of an existing row is never changed, by a
\* re-subscribe or by anything else.
C14_SubscribeIsUpsert ==
    /\ [](ret.op = "subscribeUser" =>
            /\ ret.id \in DOMAIN users
            /\ users[ret.id].subscribed = 1)
    /\ [][/\ Called("subscribeUser") => DOMAIN users' = DOMAIN users \cup {ret'.id}
          /\ \A telegram_id \in DOMAIN users \cap DOMAIN users' :
                users'[telegram_id].created_at = users[telegram_id].created_at]_vars

\* a row created earlier has been subscribed again
C14_Witness ==
    /\ ret.op = "subscribeUser"
    /\ ret.had # NullText
    /\ TLt(users[ret.id].created_at, users[ret.id].consent_timestamp)

\* C15: unsubscribeUser on an identity that has no row or is already
\* unsubscribed creates no row and leaves every field of every row, updated_at
\* included, as it was; on a subscribed identity it changes only that row's
\* flag and updated_at.
C15_UnsubscribeFrame ==
    [][Called("unsubscribeUser") =>
        IF ret'.was
        THEN /\ DOMAIN users' = DOMAIN users
             /\ \A telegram_id \in DOMAIN users \ {ret'.id} :
                    users'[telegram_id] = users[telegram_id]
             /\ users'[ret'.id] = [users[ret'.id] EXCEPT !.subscribed = 0,
                                                         !.updated_at = now]
        ELSE users' = users]_vars

\* an unsubscribe of an identity without a row, made while the table has rows
C15_Witness ==
    /\ ret.op = "unsubscribeUser"
    /\ ret.id \notin DOMAIN users
    /\ DOMAIN users # {}

\* C16: a row is never deleted: the set of identities that have a row never
\* shrinks; and the step that unsubscribes a row keeps its consent_token,
\* consent_proof, consent_timestamp and created_at.
C16_RowsAreRetained ==
    [][/\ DOMAIN users \subseteq DOMAIN users'
       /\ \A telegram_id \in DOMAIN users :
            (users[telegram_id].subscribed = 1 /\ users'[telegram_id].subscribed = 0)
                => /\ users'[telegram_id].consent_token = users[telegram_id].consent_token
                   /\ users'[telegram_id].consent_proof = users[telegram_id].consent_proof
                   /\ users'[telegram_id].consent_timestamp
                        = users[telegram_id].consent_timestamp
                   /\ users'[telegram_id].created_at = users[telegram_id].created_at]_vars

\* a row that was unsubscribed still holds its consent token and proof
C16_Witness ==
    /\ ret.op = "unsubscribeUser"
    /\ ret.was
    /\ users[ret.id].subscribed = 0
    /\ users[ret.id].consent_token \in StoreTokens
    /\ users[ret.id].consent_proof = StoreProof(users[ret.id].consent_token)

\* C17: the message log is append-only: no step of the store changes or removes
\* a record; and each recordMessage that succeeds returns the id of the record
\* it appended, which is greater than every id assigned before.
C17_LogAppendOnly ==
    /\ [][/\ Len(messages') >= Len(messages)
          /\ \A k \in DOMAIN messages : messages'[k] = messages[k]
          /\ (Called("recordMessage") /\ ~ret'.threw) =>
                /\ Len(messages') = Len(messages) + 1
                /\ messages'[Len(messages')].id = ret'.value
                /\ \A k \in DOMAIN messages : messages[k].id < ret'.value]_vars
    /\ [](\A j, k \in DOMAIN messages : j < k => messages[j].id < messages[k].id)

\* two records are in the log and the recipient of one was unsubscribed since
C17_Witness ==
    /\ Len(messages) = 2
    /\ ret.op = "unsubscribeUser"
    /\ ret.was
    /\ \E k \in DOMAIN messages : messages[k].telegram_id = ret.id

----------------------------------------------------------------------------
(* SpecProof: a caller holds one input object, has proofs generated from it *)
(* (by stamp-mock.ts and by StampMock.res), writes to the object, and has   *)
(* the proofs formatted, parsed and formatted again as /verify does.        *)
(* vinput is the caller's object; a value that is a reference to it is      *)
(* InputRef, and reading through the reference gives the object as it is at *)
(* the time of the read.                                                    *)

InputRef == [ref |-> "vinput"]

Deref(value) == IF value = InputRef THEN vinput ELSE value

\* the proof as a reader of its fields sees it now
Resolve(proof) == [proof EXCEPT !.data = Deref(@)]

\* the ReScript variant for a kind of stamp-mock.ts
Variant(kind) == IF kind = "rate_limit" THEN "rateLimit" ELSE kind

Changed == <<"changed">>

\* the caller assigns to a field of its object
MutateInput(kind, params) ==
    CASE kind = "unsubscribe" -> [params EXCEPT !.url = Changed]
      [] kind = "consent" -> [params EXCEPT !.token = Changed]
      [] kind = "rate_limit" -> [params EXCEPT !.sender_id = Changed]

ProofGenerate ==
    \E random \in Randoms :
        /\ Len(calls) < MaxCalls
        /\ calls' = Append(calls,
                [kind |-> vkind,
                 proof |-> generateProof(vkind, InputRef, random),
                 res |-> generateProofRes(Variant(vkind), InputRef, random),
                 snapshot |-> vinput,
                 text |-> NullText,
                 read |-> Null,
                 shown |-> NullText])
        /\ UNCHANGED <<now, storeVars, botVars, vkind, vinput>>

ProofMutateInput ==
    /\ MutateInput(vkind, vinput) # vinput
    /\ vinput' = MutateInput(vkind, vinput)
    /\ UNCHANGED <<now, storeVars, botVars, vkind, calls>>

\* formatProof(proof); read is the proof as formatProof finds it
ProofFormat ==
    \E k \in DOMAIN calls :
        /\ calls[k].text = NullText
        /\ calls' = [calls EXCEPT ![k].text = formatProof(Resolve(calls[k].proof)),
                                  ![k].read = Resolve(calls[k].proof)]
        /\ UNCHANGED <<now, storeVars, botVars, vkind, vinput>>

\* /verify: JSON.stringify(JSON.parse(text), null, 2)
ProofShow ==
    \E k \in DOMAIN calls :
        /\ calls[k].text # NullText
        /\ calls[k].shown = NullText
        /\ calls' = [calls EXCEPT ![k].shown = formatProof(parseProof(calls[k].text))]
        /\ UNCHANGED <<now, storeVars, botVars, vkind, vinput>>

NextProof ==
    \/ ProofGenerate
    \/ ProofMutateInput
    \/ ProofFormat
    \/ ProofShow
    \/ VerifyClock

SpecProof == InitVerify /\ [][NextProof]_vars

----------------------------------------------------------------------------
(* Claims about the proofs (SpecProof) *)

\* C18 as claimed: generateProof wraps a copy of the input, never a live
\* reference: whatever is written to the input afterwards, the proof's data is
\* the input as it was when the proof was generated, and so is what formatProof
\* prints later.
C18_ProofHoldsACopy ==
    \A k \in DOMAIN calls :
        /\ Resolve(calls[k].proof).data = calls[k].snapshot
        /\ calls[k].text # NullText =>
                calls[k].text
                    = formatProof([calls[k].proof EXCEPT !.data = calls[k].snapshot])

ProofKeys == <<"type", "data", "timestamp", "signature">>

\* C19: the text formatProof prints has the fields type, data, timestamp,
\* signature in that order; parsing it gives back the type, the data and the
\* timestamp of the proof that was printed; and printing what was parsed (as
\* /verify does) reproduces the text.
C19_FormatRoundTrip ==
    \A k \in DOMAIN calls :
        LET text == calls[k].text
            proof == calls[k].read
        IN  /\ text # NullText =>
                /\ [i \in DOMAIN text |-> text[i][1]] = ProofKeys
                /\ parseProof(text).type = proof.type
                /\ parseProof(text).data = proof.data
                /\ parseProof(text).timestamp = proof.timestamp
            /\ calls[k].shown # NullText => calls[k].shown = text

\* two proofs of a link-liveness input were printed, differently, and the
\* second one was parsed and printed again
C19_Witness ==
    /\ vkind = "unsubscribe"
    /\ Len(calls) = 2
    /\ calls[1].text # NullText
    /\ calls[2].shown # NullText
    /\ calls[1].text # calls[2].text

\* C20: generateProof(kind, input) yields a proof whose type is the kind
\* followed by "_verification" (unsubscribe_verification, consent_verification,
\* rate_limit_verification), whose data is the given input and whose signature
\* is not empty; and StampMock.res gives the same type string for the kind.
C20_ProofTypePerKind ==
    \A k \in DOMAIN calls :
        LET proof == calls[k].proof IN
        /\ proof.type = (CASE calls[k].kind = "unsubscribe" -> "unsubscribe_verification"
                           [] calls[k].kind = "consent" -> "consent_verification"
                           [] calls[k].kind = "rate_limit" -> "rate_limit_verification")
        /\ proof.data = InputRef
        /\ Len(proof.signature) > 0
        /\ calls[k].res.type_ = proof.type

\* a proof of the kind whose ReScript variant is spelled differently
C20_Witness ==
    \E k \in DOMAIN calls :
        /\ calls[k].kind = "rate_limit"
        /\ calls[k].res.type_ = "rate_limit_verification"

----------------------------------------------------------------------------
(* Further claims about the verifiers (SpecVerify) *)

\* C21: verifyRateLimit returns RATE_LIMIT_EXCEEDED whenever
\* messages_today >= daily_limit, equality and daily_limit = 0 included,
\* whatever the account age and however far the limit is below the ceiling.
C21_CountAtLimitIsExceeded ==
    vkind = "rate_limit" =>
        \A k \in DOMAIN calls :
            vinput.messages_today >= vinput.daily_limit
                => calls[k].verdict = "ERROR_RATE_LIMIT_EXCEEDED"

\* an old account with limit 0 and nothing sent today is refused
C21_Witness ==
    /\ vkind = "rate_limit"
    /\ vinput.daily_limit = 0
    /\ vinput.messages_today = 0
    /\ \E k \in DOMAIN calls :
        /\ TSub(calls[k].at, vinput.account_created).d >= 90
        /\ calls[k].verdict = "ERROR_RATE_LIMIT_EXCEEDED"

\* the ceiling a call applied, seen through its verdict: with the count under
\* the limit the call succeeds exactly when the limit is within the ceiling
AppliesCeiling(k, ceiling) ==
    (calls[k].verdict = "SUCCESS") <=> (vinput.daily_limit <= ceiling)

\* C22: the tier boundaries belong to the higher tier: at an age of exactly 30
\* days the ceiling is 10000 and at exactly 90 days it is 100000, while at any
\* age strictly under 30 days, an account_created in the future included, it
\* is 1000.
C22_BoundaryInHigherTier ==
    vkind = "rate_limit" =>
        \A k \in DOMAIN calls :
            LET age == TSub(calls[k].at, vinput.account_created) IN
            vinput.messages_today < vinput.daily_limit =>
                /\ (age.d = 30 /\ age.ms = 0) => AppliesCeiling(k, 10000)
                /\ (age.d = 90 /\ age.ms = 0) => AppliesCeiling(k, 100000)
                /\ age.d < 30 => AppliesCeiling(k, 1000)

\* a call at an age of exactly 30 (or 90) days that accepts a limit equal to
\* the ceiling of the higher tier
C22_Witness ==
    /\ vkind = "rate_limit"
    /\ vinput.messages_today < vinput.daily_limit
    /\ \E k \in DOMAIN calls :
        LET age == TSub(calls[k].at, vinput.account_created) IN
        \/ age.d = 30 /\ age.ms = 0 /\ vinput.daily_limit = 10000
                /\ calls[k].verdict = "SUCCESS"
        \/ age.d = 90 /\ age.ms = 0 /\ vinput.daily_limit = 100000
                /\ calls[k].verdict = "SUCCESS"

ChainValid(p) ==
    /\ DiffMs(p.confirmation, p.initial_request) > 0
    /\ DiffMs(p.confirmation, p.initial_request) <= 86400000

\* C23: verifyConsent reports a chain that is out of order or too slow before
\* it looks at the token: such a chain gives CONSENT_INVALID even when the token
\* is empty, and INVALID_SIGNATURE is returned exactly for an empty token on a
\* valid chain.
C23_ChainBeforeToken ==
    vkind = "consent" =>
        \A k \in DOMAIN calls :
            /\ ~ChainValid(vinput) => calls[k].verdict = "ERROR_CONSENT_INVALID"
            /\ (calls[k].verdict = "ERROR_INVALID_SIGNATURE")
                    <=> (ChainValid(vinput) /\ vinput.token = EmptyText)

\* an empty token on a chain confirmed one millisecond late
C23_Witness ==
    /\ vkind = "consent"
    /\ vinput.token = EmptyText
    /\ DiffMs(vinput.confirmation, vinput.initial_request) = 86400001
    /\ \E k \in DOMAIN calls : calls[k].verdict = "ERROR_CONSENT_INVALID"

OtherFieldsValid(p) ==
    /\ IsHttps(p.url)
    /\ p.response_code = 200
    /\ p.response_time < 200
    /\ p.signature # EmptyText

\* C24: the freshness window of the probe is the closed interval [0, 60000] ms:
\* with all other fields valid a probe aged exactly 0 or exactly 60000 ms
\* passes, and one aged 60001 ms or of negative age gives TIMEOUT.
C24_FreshnessWindowClosed ==
    (vkind = "unsubscribe" /\ OtherFieldsValid(vinput)) =>
        \A k \in DOMAIN calls :
            LET age == DiffMs(calls[k].at, vinput.tested_at) IN
            /\ age \in {0, 60000} => calls[k].verdict = "SUCCESS"
            /\ (age = 60001 \/ age < 0) => calls[k].verdict = "ERROR_TIMEOUT"

\* one input verified at age exactly 60000 ms and again one millisecond later
C24_Witness ==
    /\ vkind = "unsubscribe"
    /\ OtherFieldsValid(vinput)
    /\ Len(calls) = 2
    /\ DiffMs(calls[1].at, vinput.tested_at) = 60000
    /\ calls[1].verdict = "SUCCESS"
    /\ DiffMs(calls[2].at, vinput.tested_at) = 60001
    /\ calls[2].verdict = "ERROR_TIMEOUT"

----------------------------------------------------------------------------
(* Claims about the reading methods of the store (SpecQuery) *)

RecordsIn(m, telegram_id) == {k \in DOMAIN m : m[k].telegram_id = telegram_id}

\* C25: getUserMessages(identity, limit) returns only records of that identity,
\* each at most once, at most limit of them and all of them when there are no
\* more than limit, ordered most recent first by sent_at, and no record it
\* leaves out is more recent than one it returns.
C25_MostRecentFirst ==
    ret.op = "getUserMessages" =>
        LET found == ret.value
            mine == RecordsIn(messages, ret.id)
        IN  /\ \A j \in DOMAIN found :
                    /\ found[j].telegram_id = ret.id
                    /\ \E k \in mine : messages[k] = found[j]
            /\ Len(found) <= ret.limit
            /\ Len(found) = ret.limit \/ Len(found) = Cardinality(mine)
            /\ \A i, j \in DOMAIN found :
                    i < j => /\ found[i].id # found[j].id
                             /\ ~TLt(found[i].sent_at, found[j].sent_at)
            /\ \A k \in mine :
                    (\A j \in DOMAIN found : found[j] # messages[k])
                        => \A j \in DOMAIN found :
                                ~TLt(found[j].sent_at, messages[k].sent_at)

\* with limit 1, of two records of one identity sent at different times the
\* later one is returned
C25_Witness ==
    /\ ret.op = "getUserMessages"
    /\ ret.limit = 1
    /\ Len(messages) = 2
    /\ messages[1].telegram_id = ret.id
    /\ messages[2].telegram_id = ret.id
    /\ TLt(messages[1].sent_at, messages[2].sent_at)
    /\ ret.value = <<messages[2]>>

\* C26: getStats is consistent with the tables: total_users is the number of
\* rows of users, subscribed_users the number of rows whose flag is set (the
\* rows getSubscribedUsers lists), total_messages the number of message
\* records; so subscribed_users <= total_users.
C26_StatsMatchTables ==
    ret.op = "getStats" =>
        /\ ret.value.total_users = Cardinality(DOMAIN users)
        /\ ret.value.subscribed_users
                = Cardinality({i \in DOMAIN users : getUser(users, i).subscribed})
        /\ ret.value.subscribed_users = Len(getSubscribedUsers(users))
        /\ ret.value.total_messages = Len(messages)
        /\ ret.value.subscribed_users <= ret.value.total_users

\* stats read when one of two rows is unsubscribed and two messages are logged
C26_Witness ==
    /\ ret.op = "getStats"
    /\ ret.value = [total_users |-> 2, subscribed_users |-> 1, total_messages |-> 2]

\* the positions at which an identity is listed by getSubscribedUsers
ListedAt(u, telegram_id) ==
    {j \in DOMAIN getSubscribedUsers(u) : getSubscribedUsers(u)[j].telegram_id = telegram_id}

\* C27: isSubscribed takes an identity without a row as not subscribed, and in
\* every state of the store, for every identity: isSubscribed is true exactly
\* when getUser gives a row whose flag is true, and exactly when the identity
\* is listed, once, by getSubscribedUsers; what a call of isSubscribed returns
\* is that value.
C27_SubscribedViewsAgree ==
    /\ \A telegram_id \in Ids :
        LET user == getUser(users, telegram_id) IN
        /\ telegram_id \notin DOMAIN users => ~isSubscribed(users, telegram_id)
        /\ isSubscribed(users, telegram_id)
                <=> (IF user = Null THEN FALSE ELSE user.subscribed)
        /\ isSubscribed(users, telegram_id)
                <=> Cardinality(ListedAt(users, telegram_id)) = 1
        /\ Cardinality(ListedAt(users, telegram_id)) <= 1
    /\ ret.op = "isSubscribed" =>
            (ret.value <=> /\ ret.id \in DOMAIN users
                           /\ users[ret.id].subscribed = 1)

\* isSubscribed answered false for an identity that has a row, while the other
\* identity is listed
C27_Witness ==
    /\ ret.op = "isSubscribed"
    /\ ~ret.value
    /\ ret.id \in DOMAIN users
    /\ Len(getSubscribedUsers(users)) = 1

\* C28: a subscribeUser that repeats the call before it (same identity, token
\* and proof) leaves the row's flag, token, proof and created_at (and username)
\* as they were and sets updated_at and consent_timestamp to the time of the
\* call; no other row changes.
C28_SubscribeIdempotent ==
    [][(/\ Called("subscribeUser")
        /\ ret.op = "subscribeUser"
        /\ ret.id = ret'.id
        /\ ret.consent_token = ret'.consent_token
        /\ ret.consent_proof = ret'.consent_proof)
            => users' = [users EXCEPT ![ret'.id] =
                            [@ EXCEPT !.updated_at = now, !.consent_timestamp = now]]]_vars

\* the same subscribe was made twice, the second time later
C28_Witness ==
    /\ ret.op = "subscribeUser"
    /\ ret.had = ret.consent_token
    /\ users[ret.id].subscribed = 1
    /\ TLt(users[ret.id].created_at, ret.at)
    /\ users[ret.id].consent_timestamp = ret.at
    /\ users[ret.id].updated_at = ret.at

ReadingMethods ==
    {"getUser", "isSubscribed", "getSubscribedUsers", "getUserMessages",
     "getLastMessage", "getStats"}

\* C29: the flag and updated_at of a row change only in a subscribeUser or an
\* unsubscribeUser of that identity: recordMessage and the reading methods
\* leave every row of users as it was.
C29_OnlySubscribeAndUnsubscribeWrite ==
    [][/\ \A op \in ReadingMethods \cup {"recordMessage"} :
            Called(op) => users' = users
       /\ \A telegram_id \in DOMAIN users \cap DOMAIN users' :
            (\/ users'[telegram_id].subscribed # users[telegram_id].subscribed
             \/ users'[telegram_id].updated_at # users[telegram_id].updated_at)
                => /\ Called("subscribeUser") \/ Called("unsubscribeUser")
                   /\ ret'.id = telegram_id]_vars

\* a message was recorded for a row at a later time than the row was last
\* written
C29_Witness ==
    /\ ret.op = "recordMessage"
    /\ ~ret.threw
    /\ TLt(users[ret.id].updated_at, ret.at)

----------------------------------------------------------------------------
(* Claims about /unsubscribe and the broadcast together (Spec) *)

\* the user's flag is cleared and the confirmation of /unsubscribe is not
\* still being delivered
UnsubscribeConfirmed(userId) ==
    /\ users[userId].subscribed = 0
    /\ ~\E h \in Handlers :
            /\ cmd[h].pc = "reply"
            /\ cmd[h].to = userId
            /\ cmd[h].text = "unsubscribed successfully"

\* C30 as claimed: after a user's /unsubscribe has been confirmed and until the
\* user subscribes again, no message is recorded for that user and none is
\* sent to them, however the handler and the broadcast interleave.
C30_NoMessageAfterUnsubscribe ==
    [][\A userId \in DOMAIN users :
        UnsubscribeConfirmed(userId)
            => /\ {k \in DOMAIN messages' : messages'[k].telegram_id = userId}
                    = RecordsOf(userId)
               /\ {s \in sends' : s.to = userId} = {s \in sends : s.to = userId}]_vars

----------------------------------------------------------------------------
(* Claims about the command handlers (Spec) *)

\* the flag of userId goes from subscribed to unsubscribed in this step
FlagCleared(userId) ==
    /\ userId \in DOMAIN users
    /\ users[userId].subscribed = 1
    /\ users'[userId].subscribed = 0

\* C31: of the /unsubscribe commands for a subscribed identity with no /start
\* in between exactly one is confirmed, the one whose store unsubscribe changed
\* the flag: so a command that finishes its probe while the identity is still
\* subscribed (none before it was confirmed) is the confirmed one and clears
\* the flag.
C31_OneUnsubscribeIsConfirmed ==
    [][\A h \in Handlers :
        (/\ cmd[h].pc = "probe"
         /\ cmd'[h].pc = "reply"
         /\ users[cmd[h].userId].subscribed = 1)
            => /\ cmd'[h].text = "unsubscribed successfully"
               /\ FlagCleared(cmd[h].userId)]_vars

\* C32: the /unsubscribe handler clears only the subscription it verified: in
\* the step in which it sets the flag false, the consent token it read before
\* the probe, which is the one in the url it probed and verified, is still the
\* subscriber's consent token.
C32_ClearsWhatItVerified ==
    [][\A h \in Handlers :
        (/\ cmd[h].pc = "probe"
         /\ cmd'[h].pc = "reply"
         /\ FlagCleared(cmd[h].userId))
            => /\ cmd[h].user.consent_token = users[cmd[h].userId].consent_token
               /\ cmd[h].unsub_url =
                    generateUnsubscribeUrl(cmd[h].userId,
                                           users[cmd[h].userId].consent_token)]_vars

\* a subscription that was renewed by a later /start has been cleared
C32_Witness ==
    \E h \in Handlers :
        /\ cmd[h].pc = "reply"
        /\ cmd[h].text = "unsubscribed successfully"
        /\ users[cmd[h].to].subscribed = 0
        /\ TLt(users[cmd[h].to].created_at, users[cmd[h].to].consent_token[3])
        /\ TLt(users[cmd[h].to].consent_token[3], users[cmd[h].to].updated_at)

\* handler h takes an update and ends it in the same step with the given reply
CommandEnds(h, text) ==
    /\ cmd[h].pc = "idle"
    /\ cmd'[h].pc = "reply"
    /\ cmd'[h].text = text

\* C33: the handlers write the store only after a SUCCESS verdict: a step of
\* /unsubscribe changes the store only when the url it probed is https and the
\* probe took under 200 ms, and then it is the confirmed one; a step of /start
\* changes the store only to a row whose stored proof is of a valid, timely
\* chain with a non-empty token; a step that ends with a verification failure
\* leaves the store unchanged.
C33_WritesOnlyAfterSuccess ==
    [][\A h \in Handlers :
        /\ (cmd[h].pc = "probe" /\ cmd'[h].pc = "reply")
            => /\ users' # users
                    => /\ cmd'[h].text = "unsubscribed successfully"
                       /\ IsHttps(cmd[h].unsub_url)
                       /\ Elapsed(cmd[h].start) < 200
               /\ cmd'[h].text = "unsubscribe verification failed"
                    => UNCHANGED storeVars
        /\ (cmd[h].pc = "idle" /\ cmd'[h].pc = "reply")
            => /\ users' # users
                    => /\ cmd'[h].text = "subscription confirmed"
                       /\ LET data == JSONparse(JSONparse(
                                        users'[cmd'[h].to].consent_proof).data)
                          IN  /\ ChainValid(data)
                              /\ data.token # EmptyText
               /\ cmd'[h].text = "consent verification failed"
                    => UNCHANGED storeVars]_vars

\* a /unsubscribe whose verification failed is being answered, and the user is
\* still subscribed
C33_Witness ==
    \E h \in Handlers :
        /\ cmd[h].pc = "reply"
        /\ cmd[h].text = "unsubscribe verification failed"
        /\ users[cmd[h].to].subscribed = 1

\* C34: a /start from a subscribed user leaves the store as it is; a /start from
\* an unknown or unsubscribed user never ends in a consent failure: it ends with
\* the user subscribed under a token generated in that step, different from the
\* one the row held, with updated_at the time of the step and created_at that
\* of the first subscription.
C34_StartFrame ==
    [][\A h \in Handlers :
        /\ CommandEnds(h, "already subscribed")
            => /\ isSubscribed(users, cmd'[h].to)
               /\ UNCHANGED storeVars
        /\ ~CommandEnds(h, "consent verification failed")
        /\ CommandEnds(h, "subscription confirmed")
            => LET userId == cmd'[h].to
                   row == users'[userId]
               IN  /\ ~isSubscribed(users, userId)
                   /\ row.subscribed = 1
                   /\ row.consent_token[1] = userId
                   /\ row.consent_token[3] = now
                   /\ row.updated_at = now
                   /\ JSONparse(JSONparse(row.consent_proof).data).token
                        = row.consent_token
                   /\ IF userId \in DOMAIN users
                      THEN /\ row.consent_token # users[userId].consent_token
                           /\ row.consent_proof # users[userId].consent_proof
                           /\ row.created_at = users[userId].created_at
                      ELSE row.created_at = now
                   /\ \A other \in DOMAIN users \ {userId} :
                        users'[other] = users[other]
                   /\ UNCHANGED <<messages, autoinc>>]_vars

\* a user who had unsubscribed is subscribed again by /start
C34_Witness ==
    \E h \in Handlers :
        /\ cmd[h].pc = "reply"
        /\ cmd[h].text = "subscription confirmed"
        /\ users[cmd[h].to].subscribed = 1
        /\ TLt(users[cmd[h].to].created_at, users[cmd[h].to].updated_at)

----------------------------------------------------------------------------
(* Claims about the two implementations and the verdicts (SpecVerify) *)

\* the constructor of verificationResult that stands for a member of the enum
ResOf ==
    [r \in {"SUCCESS", "ERROR_INVALID_URL", "ERROR_TIMEOUT", "ERROR_INVALID_RESPONSE",
            "ERROR_INVALID_SIGNATURE", "ERROR_RATE_LIMIT_EXCEEDED",
            "ERROR_CONSENT_INVALID", "ERROR_NULL_POINTER", "ERROR_INTERNAL"} |->
        CASE r = "SUCCESS" -> "Success"
          [] r = "ERROR_INVALID_URL" -> "ErrorInvalidUrl"
          [] r = "ERROR_TIMEOUT" -> "ErrorTimeout"
          [] r = "ERROR_INVALID_RESPONSE" -> "ErrorInvalidResponse"
          [] r = "ERROR_INVALID_SIGNATURE" -> "ErrorInvalidSignature"
          [] r = "ERROR_RATE_LIMIT_EXCEEDED" -> "ErrorRateLimitExceeded"
          [] r = "ERROR_CONSENT_INVALID" -> "ErrorConsentInvalid"
          [] r = "ERROR_NULL_POINTER" -> "ErrorNullPointer"
          [] r = "ERROR_INTERNAL" -> "ErrorInternal"]

\* C35: the TypeScript and the ReScript verification logic are equivalent: on
\* every input and at the same current time the three verifiers of the one
\* return the verdict that corresponds to the verdict of the other, and the two
\* resultToString render corresponding verdicts to the same text.
C35_ImplementationsAgree ==
    /\ \A k \in DOMAIN calls :
        /\ calls[k].verdict \in DOMAIN ResOf
        /\ calls[k].res = ResOf[calls[k].verdict]
        /\ resultToStringRes(calls[k].res) = resultToString(calls[k].verdict)
    /\ \A r \in DOMAIN ResOf : resultToStringRes(ResOf[r]) = resultToString(r)

\* a probe of exactly 200 ms was judged twice, the clock having moved between
C35_Witness ==
    /\ vkind = "unsubscribe"
    /\ Len(calls) = 2
    /\ TLt(calls[1].at, calls[2].at)
    /\ vinput.response_time = 200
    /\ calls[1].verdict = "ERROR_TIMEOUT"
    /\ calls[1].res = "ErrorTimeout"
    /\ resultToStringRes(calls[2].res) = <<"U+2717", " ", "TIMEOUT">>
    /\ IsHttps(vinput.url)
    /\ ProbeFresh(vinput, calls[2].at)
    /\ vinput.response_code = 200

\* C36: each verifier returns a verdict of its own subset on every input:
\* verifyUnsubscribe one of SUCCESS, INVALID_URL, TIMEOUT, INVALID_RESPONSE,
\* INVALID_SIGNATURE; verifyConsent one of SUCCESS, CONSENT_INVALID,
\* INVALID_SIGNATURE; verifyRateLimit one of SUCCESS, RATE_LIMIT_EXCEEDED; no
\* verifier returns NULL_POINTER or INTERNAL.
C36_VerdictSubsets ==
    \A k \in DOMAIN calls :
        /\ vkind = "unsubscribe" =>
            calls[k].verdict \in {"SUCCESS", "ERROR_INVALID_URL", "ERROR_TIMEOUT",
                                  "ERROR_INVALID_RESPONSE", "ERROR_INVALID_SIGNATURE"}
        /\ vkind = "consent" =>
            calls[k].verdict \in {"SUCCESS", "ERROR_CONSENT_INVALID",
                                  "ERROR_INVALID_SIGNATURE"}
        /\ vkind = "rate_limit" =>
            calls[k].verdict \in {"SUCCESS", "ERROR_RATE_LIMIT_EXCEEDED"}
        /\ calls[k].verdict \notin {"ERROR_NULL_POINTER", "ERROR_INTERNAL"}

\* verifyConsent was given an empty token on a valid chain
C36_Witness ==
    /\ vkind = "consent"
    /\ Len(calls) > 0
    /\ vinput.token = EmptyText
    /\ ChainValid(vinput)
    /\ calls[1].verdict = "ERROR_INVALID_SIGNATURE"

----------------------------------------------------------------------------
(* Claims about the last message (SpecQuery) *)

\* C37 as claimed: getLastMessage returns null exactly when the identity has no
\* message record, and otherwise the identity's most recently inserted record,
\* the one with the greatest id, also when several of its records carry the
\* same sent_at.
C37_LastMessageIsNewest ==
    ret.op = "getLastMessage" =>
        LET own == {messages[k] : k \in RecordsOf(ret.id)} IN
        /\ (ret.value = Null) <=> (own = {})
        /\ own # {} =>
            /\ ret.value \in own
            /\ \A m \in own : m.id <= ret.value.id

----------------------------------------------------------------------------
(* Claims about the liveness check of /unsubscribe (Spec) *)

\* C38 as claimed: in the /unsubscribe flow the verification of the bot's own
\* unsubscribe url never fails: no /unsubscribe of a subscribed user is
\* answered with the verification failure, and none ends with the user still
\* subscribed.
C38_OwnLinkAlwaysVerifies ==
    \A h \in Handlers :
        cmd[h].pc = "reply" =>
            /\ cmd[h].text # "unsubscribe verification failed"
            /\ cmd[h].text = "unsubscribed successfully"
                => users[cmd[h].to].subscribed = 0

====
